---------------------------- MODULE Spec2Model ----------------------------
(***************************************************************************)
(* Model of app.py: the FastAPI handler generate_content, which relays a   *)
(* chat history to the Gemini client under one of three mode presets.      *)
(*                                                                         *)
(* Python values are modelled as follows.  None is the record PyNone, a    *)
(* str is a tagged record Str(s), a list is a sequence, an object is a     *)
(* record whose fields are its attributes (so hasattr is a DOMAIN test).   *)
(* Floats of the generation configuration are kept in hundredths.  The     *)
(* three prompt texts are kept to their first sentence.                    *)
(***************************************************************************)
EXTENDS Integers, Sequences, FiniteSets, TLC

\* ------------------------------------------------------------- bounds
NumRequests   == 2    \* request slots the transport serves concurrently
MaxTurns      == 2    \* turns of a conversation history
MaxCandidates == 2    \* candidates of a remote response
MaxParts      == 2    \* content parts of a candidate

Requests == 1..NumRequests

\* ------------------------------------------------------ Python values
PyNone == [py |-> "None"]
Str(s) == [py |-> "str", v |-> s]

\* A variant that tests `x is not None` instead of the truth value.
TruthyNoneOnly(x) == x # PyNone

\* `not x` is False: None and the empty string are falsy, objects are truthy.
Truthy(x) == IF "py" \in DOMAIN x THEN x.py = "str" /\ x.v # "" ELSE TRUE

\* hasattr(obj, name)
HasAttr(obj, name) == name \in DOMAIN obj

\* What an f-string or str() makes of a value: None is "None", a str is itself.
Format(x) == IF x = PyNone THEN "None" ELSE x.v

\* str(e): starlette's HTTPException prints "<status_code>: <detail>", any
\* other exception prints its message.
ExcStr(e) ==
    IF e.type = "HTTPException"
    THEN ToString(e.status_code) \o ": " \o e.detail
    ELSE e.message

HTTPException(code, text) ==
    [type |-> "HTTPException", status_code |-> code, detail |-> text]

\* The response FastAPI sends for a raised HTTPException / a returned dict.
ErrorResponse(e) == [status_code |-> e.status_code, detail |-> e.detail]
JsonResponse(t)  == [status_code |-> 200, text |-> t]

\* ------------------------------------------------------------ prompts
TUTOR_MODE_PROMPT ==
    [role |-> "system",
     parts |-> << [text |-> "You are an expert STEM problem solver."] >>]

CONCEPT_MODE_PROMPT ==
    [role |-> "system",
     parts |-> << [text |-> "You are an expert and patient AI Tutor."] >>]

ASSISTANT_MODE_PROMPT ==
    [role |-> "system",
     parts |-> << [text |-> "You are a polite, trustworthy personal assistant."] >>]

\* ------------------------------------------------------------- inputs
\* The credential as the environment may hold it: unset, empty, or set.
Credentials == {PyNone, Str(""), Str("sk-test")}

\* ChatRequest.mode is any str; "Tutor" stands for the unknown ones (the
\* comparison is case-sensitive).
Modes == {"assistant", "tutor", "concept", "Tutor"}

Turn(i) ==
    [role  |-> IF i % 2 = 1 THEN "user" ELSE "model",
     parts |-> << [text |-> "turn " \o ToString(i)] >>]

History(n) == [i \in 1..n |-> Turn(i)]

Histories == {History(n) : n \in 0..MaxTurns}

ChatRequest(h, m) == [history |-> h, mode |-> m]

NoRequest == [history |-> << >>, mode |-> "-"]
NoCall    == [issued |-> FALSE]
NoResult  == [status_code |-> 0]

VARIABLES
    environ,          \* GOOGLE_API_KEY as .env / the process environment holds it now
    GOOGLE_API_KEY,   \* the module global set when app.py is imported
    genai_api_key,    \* the key the genai client library is configured with
    remote,           \* the behaviour of the remote generation service
    pc,               \* per request: "idle", "awaiting" or "done"
    req,              \* per request: the ChatRequest being handled
    call,             \* per request: the remote call it issued
    calls,            \* per request: how many remote calls it issued
    result            \* per request: the HTTP response

vars == << environ, GOOGLE_API_KEY, genai_api_key, remote, pc, req, call, calls, result >>


\* A variant that falls back to the assistant preset for an unknown mode.
SelectPresetDefaulting(mode) ==
    [raised |-> FALSE,
     model_name |-> IF mode = "assistant" THEN "gemini-1.5-flash-latest"
                    ELSE IF mode \in {"tutor", "concept"} THEN "gemini-2.0-flash"
                    ELSE "gemini-1.5-flash-latest",
     system_instruction |->
         IF mode = "tutor" THEN TUTOR_MODE_PROMPT.parts[1].text
         ELSE IF mode = "concept" THEN CONCEPT_MODE_PROMPT.parts[1].text
         ELSE ASSISTANT_MODE_PROMPT.parts[1].text,
     generation_config |->
         IF mode \in {"tutor", "concept"}
         THEN [temperature_x100 |-> 55, top_p_x100 |-> 95, top_k |-> 32,
               max_output_tokens |-> 8192]
         ELSE [temperature_x100 |-> 70, top_p_x100 |-> 95, top_k |-> 40,
               max_output_tokens |-> 8192]]

\* ---------------------------------------------------- mode selection
\* The if / elif / else chain on request.mode: the preset of a known mode, or
\* the HTTPException the else branch raises.
SelectPreset(mode) ==
    IF mode = "assistant" THEN
        [raised |-> FALSE,
         model_name |-> "gemini-1.5-flash-latest",
         system_instruction |-> ASSISTANT_MODE_PROMPT.parts[1].text,
         generation_config |->
             [temperature_x100 |-> 70, top_p_x100 |-> 95, top_k |-> 40,
              max_output_tokens |-> 8192]]
    ELSE IF mode = "tutor" THEN
        [raised |-> FALSE,
         model_name |-> "gemini-2.0-flash",
         system_instruction |-> TUTOR_MODE_PROMPT.parts[1].text,
         generation_config |->
             [temperature_x100 |-> 55, top_p_x100 |-> 95, top_k |-> 32,
              max_output_tokens |-> 8192]]
    ELSE IF mode = "concept" THEN
        [raised |-> FALSE,
         model_name |-> "gemini-2.0-flash",
         system_instruction |-> CONCEPT_MODE_PROMPT.parts[1].text,
         generation_config |->
             [temperature_x100 |-> 55, top_p_x100 |-> 95, top_k |-> 32,
              max_output_tokens |-> 8192]]
    ELSE
        [raised |-> TRUE, exc |-> HTTPException(400, "Invalid mode specified.")]

\* A variant that sends only the last turn of the history.
BuildCallLastTurn(preset, history) ==
    [issued |-> TRUE,
     model_name |-> preset.model_name,
     generation_config |-> preset.generation_config,
     system_instruction |-> preset.system_instruction,
     contents |-> IF Len(history) > 1
                  THEN << history[Len(history)] >>
                  ELSE history]

\* genai.GenerativeModel(...) followed by model.generate_content_async(history):
\* the one remote call, with everything it carries.
BuildCall(preset, history) ==
    [issued |-> TRUE,
     model_name |-> preset.model_name,
     generation_config |-> preset.generation_config,
     system_instruction |-> preset.system_instruction,
     contents |-> history]

\* A variant that reads the environment when the request is handled.
EnvironCredential == environ

\* The credential the handler tests and configures the client with: the module
\* global, not the environment.
RequestCredential == GOOGLE_API_KEY

\* ------------------------------------------------------ remote service
\* The remote service is opaque.  Its behaviour is fixed for a run (a
\* deterministic stub): it raises, or it returns a response whose shape is
\* given and whose texts are a function of the call it answers.
\* A candidate shape is -1 (no content) or its number of parts.
CandidateShapes == {-1} \cup (0..MaxParts)

ShapeLists == UNION {[1..n -> CandidateShapes] : n \in 0..MaxCandidates}

\* prompt_feedback: the attribute is missing, or is None, empty, or a diagnostic.
Feedbacks == {<< >>, << PyNone >>, << Str("") >>, << Str("block_reason: SAFETY") >>}

RemoteErrors ==
    {[type |-> "ResourceExhausted", message |-> "429 Quota exceeded."],
     [type |-> "DeadlineExceeded", message |-> " 504 Deadline Exceeded\n"]}

RemoteBehaviours ==
    {[raises |-> TRUE, exc |-> e] : e \in RemoteErrors}
    \cup {[raises |-> FALSE, shape |-> s, feedback |-> f] :
              s \in ShapeLists, f \in Feedbacks}

\* Text of part j of candidate i in the answer to call c; whitespace at both
\* ends, as a provider may send it.
PartText(c, i, j) ==
    " " \o c.model_name \o "/" \o ToString(c.generation_config.top_k)
        \o "/" \o ToString(Len(c.system_instruction))
        \o "/" \o ToString(Len(c.contents))
        \o ": candidate " \o ToString(i) \o " part " \o ToString(j) \o "\n"

Candidate(c, i, n) ==
    IF n < 0 THEN [content |-> PyNone]
    ELSE [content |->
             [role |-> "model",
              parts |-> [j \in 1..n |-> [text |-> PartText(c, i, j)]]]]

Response(b, c) ==
    LET cands == [i \in 1..Len(b.shape) |-> Candidate(c, i, b.shape[i])]
    IN  IF b.feedback = << >>
        THEN [candidates |-> cands]
        ELSE [candidates |-> cands, prompt_feedback |-> b.feedback[1]]

\* What awaiting the call c yields under behaviour b.
RemoteGenerate(b, c) ==
    IF b.raises
    THEN [raised |-> TRUE, exc |-> b.exc]
    ELSE [raised |-> FALSE, response |-> Response(b, c)]

\* ------------------------------------------------------------ handler
\* raise HTTPException(status_code=500, detail=...) of the credential check.
MissingKeyError == HTTPException(500, "API key not configured on the server.")

\* A variant that maps a deadline error to its own status code.
OnExceptionClassified(e) ==
    IF e.type = "DeadlineExceeded"
    THEN HTTPException(504, "Upstream timeout")
    ELSE HTTPException(500, ExcStr(e))

\* except Exception as e: raise HTTPException(status_code=500, detail=str(e)).
\* HTTPException is itself an Exception, so the one raised for an unknown mode
\* inside the try block is caught here as well.
OnException(e) == HTTPException(500, ExcStr(e))

FallbackPrefix ==
    "Error: The AI could not provide a response, it may have been blocked by safety filters. (Reason: "

\* Whitespace stripped from both ends of a text (Python's str.strip).
RECURSIVE LStrip(_)
LStrip(s) ==
    IF Len(s) > 0 /\ SubSeq(s, 1, 1) \in {" ", "\n"}
    THEN LStrip(SubSeq(s, 2, Len(s)))
    ELSE s

RECURSIVE RStrip(_)
RStrip(s) ==
    IF Len(s) > 0 /\ SubSeq(s, Len(s), Len(s)) \in {" ", "\n"}
    THEN RStrip(SubSeq(s, 1, Len(s) - 1))
    ELSE s

\* A variant that strips the text it takes.
ModelTextStripped(response) ==
    RStrip(LStrip(response.candidates[1].content.parts[1].text))

\* The text the handler takes from a usable response.
ModelText(response) == response.candidates[1].content.parts[1].text

\* "Safely extract the text from the model's response": the first candidate's
\* first part, or the fallback text with the feedback (or "Unknown").
HandleResponse(response) ==
    IF /\ Len(response.candidates) > 0
       /\ Truthy(response.candidates[1].content)
       /\ Len(response.candidates[1].content.parts) > 0
    THEN JsonResponse(ModelText(response))
    ELSE LET finish_reason ==
                 IF HasAttr(response, "prompt_feedback")
                 THEN response.prompt_feedback
                 ELSE Str("Unknown")
         IN  JsonResponse(FallbackPrefix \o Format(finish_reason) \o ")")

\* Module import: load_dotenv() and os.getenv("GOOGLE_API_KEY").
LoadKey(env) == env

Finish(r, res) ==
    /\ pc' = [pc EXCEPT ![r] = "done"]
    /\ result' = [result EXCEPT ![r] = res]

\* generate_content from its entry to its first suspension or its end: the
\* credential check, genai.configure, the mode selection and the remote call.
Receive(r, h, m) ==
    /\ pc[r] = "idle"
    /\ req' = [req EXCEPT ![r] = ChatRequest(h, m)]
    /\ IF ~Truthy(RequestCredential)
       THEN /\ Finish(r, ErrorResponse(MissingKeyError))
            /\ UNCHANGED << genai_api_key, call, calls >>
       ELSE /\ genai_api_key' = RequestCredential
            /\ LET preset == SelectPreset(m)
               IN  IF preset.raised
                   THEN /\ Finish(r, ErrorResponse(OnException(preset.exc)))
                        /\ UNCHANGED << call, calls >>
                   ELSE /\ pc' = [pc EXCEPT ![r] = "awaiting"]
                        /\ call' = [call EXCEPT ![r] = BuildCall(preset, h)]
                        /\ calls' = [calls EXCEPT ![r] = @ + 1]
                        /\ UNCHANGED result
    /\ UNCHANGED << environ, GOOGLE_API_KEY, remote >>

\* A variant that calls the service again, once, when the call raised.
ResumeWithRetry(r) ==
    /\ pc[r] = "awaiting"
    /\ LET out == RemoteGenerate(remote, call[r])
       IN  IF out.raised /\ calls[r] < 2
           THEN /\ calls' = [calls EXCEPT ![r] = @ + 1]
                /\ UNCHANGED << pc, result >>
           ELSE /\ Finish(r, IF out.raised
                             THEN ErrorResponse(OnException(out.exc))
                             ELSE HandleResponse(out.response))
                /\ UNCHANGED calls
    /\ UNCHANGED << environ, GOOGLE_API_KEY, genai_api_key, remote, req, call >>

\* generate_content from the completion of the awaited call to its end.
Resume(r) ==
    /\ pc[r] = "awaiting"
    /\ LET out == RemoteGenerate(remote, call[r])
       IN  Finish(r, IF out.raised
                     THEN ErrorResponse(OnException(out.exc))
                     ELSE HandleResponse(out.response))
    /\ UNCHANGED << environ, GOOGLE_API_KEY, genai_api_key, remote, req, call, calls >>

\* The transport sends the response; nothing of the request is kept.
Respond(r) ==
    /\ pc[r] = "done"
    /\ pc' = [pc EXCEPT ![r] = "idle"]
    /\ req' = [req EXCEPT ![r] = NoRequest]
    /\ call' = [call EXCEPT ![r] = NoCall]
    /\ calls' = [calls EXCEPT ![r] = 0]
    /\ result' = [result EXCEPT ![r] = NoResult]
    /\ UNCHANGED << environ, GOOGLE_API_KEY, genai_api_key, remote >>

\* The operator changes the credential in .env / the environment while the
\* process runs.
SetEnviron(v) ==
    /\ v # environ
    /\ environ' = v
    /\ UNCHANGED << GOOGLE_API_KEY, genai_api_key, remote, pc, req, call, calls, result >>

\* ----------------------------------------------------- specifications
\* Remote behaviours of the concurrent specification: a text answer, a blocked
\* prompt, a failing call.
StubBehaviours ==
    {[raises |-> FALSE, shape |-> << 1 >>, feedback |-> << >>],
     [raises |-> FALSE, shape |-> << >>,
      feedback |-> << Str("block_reason: SAFETY") >>],
     [raises |-> TRUE,
      exc |-> [type |-> "ResourceExhausted", message |-> "429 Quota exceeded."]]}

InitProcess ==
    /\ environ \in Credentials
    /\ GOOGLE_API_KEY = LoadKey(environ)
    /\ genai_api_key = PyNone
    /\ pc = [r \in Requests |-> "idle"]
    /\ req = [r \in Requests |-> NoRequest]
    /\ call = [r \in Requests |-> NoCall]
    /\ calls = [r \in Requests |-> 0]
    /\ result = [r \in Requests |-> NoResult]

Init == InitProcess /\ remote \in StubBehaviours

Next ==
    \/ \E r \in Requests, h \in Histories, m \in Modes : Receive(r, h, m)
    \/ \E r \in Requests : Resume(r)
    \/ \E r \in Requests : Respond(r)
    \/ \E v \in Credentials : SetEnviron(v)

\* Concurrent requests against the stub behaviours.
Spec == Init /\ [][Next]_vars

InitSingle == InitProcess /\ remote \in RemoteBehaviours

NextSingle ==
    \/ \E h \in Histories, m \in Modes : Receive(1, h, m)
    \/ Resume(1)
    \/ Respond(1)
    \/ \E v \in Credentials : SetEnviron(v)

\* One request at a time against every remote behaviour within the bounds.
SpecSingle == InitSingle /\ [][NextSingle]_vars

\* =============================================================== claims
KnownModes == {"assistant", "tutor", "concept"}

\* The credential is absent: unset or empty.
Absent(k) == k = PyNone \/ k = Str("")

ConfigurationError ==
    [status_code |-> 500, detail |-> "API key not configured on the server."]

\* Request r enters the handler in this step.
Enters(r) == pc[r] = "idle" /\ pc'[r] # "idle"

\* t occurs in s.
Contains(s, t) ==
    \E i \in 1..(Len(s) - Len(t) + 1) : SubSeq(s, i, i + Len(t) - 1) = t

\* Request r has received the remote service's answer to its call.
Answered(r) == pc[r] = "done" /\ calls[r] = 1

\* The response request r was answered with (when the call returned).
Received(r) == Response(remote, call[r])

\* Candidate c carries at least one content part.
HasParts(c) == c.content # PyNone /\ Len(c.content.parts) > 0

\* C1: with the credential present, a request whose mode is not assistant,
\* tutor or concept ends with status 400 and detail "Invalid mode specified.".
\* The code raises that exception inside the try block and its own
\* `except Exception` turns it into a 500, so this is violated.
C1_InvalidModeIs400 ==
    \A r \in Requests :
        (pc[r] = "done" /\ ~Absent(GOOGLE_API_KEY) /\ req[r].mode \notin KnownModes)
            => result[r] = [status_code |-> 400, detail |-> "Invalid mode specified."]

\* C2: a remote call has been issued for a request only if the credential
\* was present and the mode is a known one; otherwise none was issued.
C2_CallOnlyWithKeyAndKnownMode ==
    \A r \in Requests :
        /\ (calls[r] > 0 \/ call[r].issued)
               => (~Absent(GOOGLE_API_KEY) /\ req[r].mode \in KnownModes)
        /\ (pc[r] # "idle" /\ (Absent(GOOGLE_API_KEY) \/ req[r].mode \notin KnownModes))
               => (calls[r] = 0 /\ ~call[r].issued)

\* C2 witness: one request has issued its call while another, of unknown
\* mode, has ended without one.
C2_Witness ==
    \E r1, r2 \in Requests :
        /\ calls[r1] = 1 /\ call[r1].issued
        /\ pc[r2] = "done" /\ req[r2].mode \notin KnownModes /\ calls[r2] = 0

\* C3: with the credential absent, every request, whatever its mode, ends
\* with status 500 and the fixed detail "API key not configured on the server.".
C3_MissingKeyIsFixed500 ==
    \A r \in Requests :
        (pc[r] = "done" /\ Absent(GOOGLE_API_KEY)) => result[r] = ConfigurationError

\* C3 witness: with an empty credential, a request of a known mode and one
\* of an unknown mode have both ended.
C3_Witness ==
    \E r1, r2 \in Requests :
        /\ GOOGLE_API_KEY = Str("")
        /\ pc[r1] = "done" /\ req[r1].mode = "tutor"
        /\ pc[r2] = "done" /\ req[r2].mode = "Tutor"

\* C4 as claimed: a request is rejected with the configuration error exactly
\* when the credential is absent from the environment at the moment the
\* request is handled.
C4_KeyReadAtRequestTime ==
    [][\A r \in Requests :
           Enters(r) => ((result'[r] = ConfigurationError) <=> Absent(environ))]_vars

\* C4 as amended: the credential is read from the environment once, when the
\* module is imported, and never again; a request is rejected with the
\* configuration error exactly when the credential was absent at that time.
C4_KeyReadAtImport ==
    /\ GOOGLE_API_KEY = environ
    /\ [][/\ GOOGLE_API_KEY' = GOOGLE_API_KEY
          /\ \A r \in Requests :
                 Enters(r) =>
                     ((result'[r] = ConfigurationError) <=> Absent(GOOGLE_API_KEY))]_vars

\* C4 witness: the process started without a credential, the environment holds
\* one now, and a request has been rejected with the configuration error.
C4_Witness ==
    \E r \in Requests :
        /\ Absent(GOOGLE_API_KEY) /\ ~Absent(environ)
        /\ pc[r] = "done" /\ result[r] = ConfigurationError

\* C5 as claimed: whenever some candidate of the response carries a part, the
\* request ends with status 200 and the first candidate's first part's text.
C5_AnyCandidateWithText ==
    \A r \in Requests :
        (/\ Answered(r) /\ ~remote.raises
         /\ \E i \in 1..Len(Received(r).candidates) :
                HasParts(Received(r).candidates[i]))
            => /\ HasParts(Received(r).candidates[1])
               /\ result[r] =
                      [status_code |-> 200,
                       text |-> Received(r).candidates[1].content.parts[1].text]

\* C5 as amended: whenever the first candidate of the response carries a
\* part, the request ends with status 200 and exactly that candidate's first
\* part's text.
C5_FirstCandidateText ==
    \A r \in Requests :
        (/\ Answered(r) /\ ~remote.raises
         /\ Len(Received(r).candidates) > 0
         /\ HasParts(Received(r).candidates[1]))
            => result[r] =
                   [status_code |-> 200,
                    text |-> Received(r).candidates[1].content.parts[1].text]

\* C5 witness: a response of two candidates with two parts each was received
\* and answered with status 200.
C5_Witness ==
    \E r \in Requests :
        /\ Answered(r) /\ ~remote.raises
        /\ remote.shape = << 2, 2 >>
        /\ result[r].status_code = 200

\* The diagnostic a response carries, if any: a prompt_feedback that is
\* neither None nor empty.
HasDiagnostic(response) ==
    /\ HasAttr(response, "prompt_feedback")
    /\ response.prompt_feedback # PyNone
    /\ response.prompt_feedback # Str("")

\* C6: a response without usable content (no candidate, or a first candidate
\* without content or parts) ends with status 200 and a text that contains
\* "Error: The AI could not provide a response" and the provider's diagnostic,
\* or "Unknown" when the provider gave none.  The code tests only whether the
\* attribute exists, so a prompt_feedback of None is printed as "None".
C6_FallbackDiagnosticOrUnknown ==
    \A r \in Requests :
        (/\ Answered(r) /\ ~remote.raises
         /\ ~(/\ Len(Received(r).candidates) > 0
              /\ HasParts(Received(r).candidates[1])))
            => /\ result[r].status_code = 200
               /\ Contains(result[r].text, "Error: The AI could not provide a response")
               /\ IF HasDiagnostic(Received(r))
                  THEN Contains(result[r].text, Received(r).prompt_feedback.v)
                  ELSE Contains(result[r].text, "Unknown")

\* C7: a request whose remote call raised ends with status 500 and the
\* exception's message as detail, whatever the exception's type.
C7_RemoteErrorIs500Verbatim ==
    \A r \in Requests :
        (Answered(r) /\ remote.raises)
            => result[r] = [status_code |-> 500, detail |-> remote.exc.message]

\* C7 witness: a call that raised a deadline error has been answered.
C7_Witness ==
    \E r \in Requests :
        /\ Answered(r) /\ remote.raises
        /\ remote.exc.type = "DeadlineExceeded"
        /\ result[r].status_code = 500

\* C8: a request with a known mode and a present credential issues exactly
\* one remote call, from the moment it is handled to its end, whatever the
\* call's outcome; no request ever issues a second one.
C8_ExactlyOneCall ==
    \A r \in Requests :
        /\ calls[r] <= 1
        /\ (pc[r] # "idle" /\ ~Absent(GOOGLE_API_KEY) /\ req[r].mode \in KnownModes)
               => calls[r] = 1

\* C8 witness: a request whose call raised has ended, with one call issued.
C8_Witness ==
    \E r \in Requests :
        /\ pc[r] = "done" /\ remote.raises
        /\ req[r].mode \in KnownModes /\ calls[r] = 1

\* C9: two handled requests with the same history and mode have identical
\* outcomes.
C9_SamePairSameOutcome ==
    \A r1, r2 \in Requests :
        (pc[r1] = "done" /\ pc[r2] = "done" /\ req[r1] = req[r2])
            => result[r1] = result[r2]

\* C9 witness: two requests with the same history and mode have ended with
\* status 200 while the environment no longer holds the credential the
\* process started with.
C9_Witness ==
    \E r1, r2 \in Requests :
        /\ r1 # r2 /\ pc[r1] = "done" /\ pc[r2] = "done" /\ req[r1] = req[r2]
        /\ result[r1].status_code = 200
        /\ environ # GOOGLE_API_KEY

\* The call the claim expects of a request: its own history, and the model,
\* instruction and configuration of its own mode.
ExpectedCall(q) ==
    [issued |-> TRUE,
     contents |-> q.history,
     model_name |->
         IF q.mode = "assistant" THEN "gemini-1.5-flash-latest" ELSE "gemini-2.0-flash",
     system_instruction |->
         IF q.mode = "assistant" THEN "You are a polite, trustworthy personal assistant."
         ELSE IF q.mode = "tutor" THEN "You are an expert STEM problem solver."
         ELSE "You are an expert and patient AI Tutor.",
     generation_config |->
         IF q.mode = "assistant"
         THEN [temperature_x100 |-> 70, top_p_x100 |-> 95, top_k |-> 40,
               max_output_tokens |-> 8192]
         ELSE [temperature_x100 |-> 55, top_p_x100 |-> 95, top_k |-> 32,
               max_output_tokens |-> 8192]]

\* C10: under every interleaving, the call a request has in flight carries
\* that request's own history, unmodified, and its own mode's model,
\* instruction and configuration; and the request ends with the answer to its
\* own call.
C10_OwnHistoryOwnPreset ==
    \A r \in Requests :
        /\ call[r].issued => call[r] = ExpectedCall(req[r])
        /\ Answered(r) =>
               LET out == RemoteGenerate(remote, ExpectedCall(req[r]))
               IN  result[r] = IF out.raised
                               THEN [status_code |-> 500, detail |-> out.exc.message]
                               ELSE HandleResponse(out.response)

\* C10 witness: a request has ended with the text of its own call while another,
\* of another mode and another history, is suspended at its call.
C10_Witness ==
    \E r1, r2 \in Requests :
        /\ pc[r1] = "done" /\ result[r1].status_code = 200
        /\ req[r1].mode = "tutor" /\ Len(req[r1].history) = 2
        /\ pc[r2] = "awaiting"
        /\ req[r2].mode = "assistant" /\ Len(req[r2].history) = 1

=============================================================================
